---- MODULE Spec2Model ----
(***************************************************************************)
(* A model of git-quickprune (src/src/main.rs): one run of `main` against  *)
(* a git repository, an editor process and the remote-delete children.     *)
(*                                                                         *)
(* Text (a Rust String, a file, a command's stdout) is a sequence of       *)
(* tokens.  A token is "\n", " ", "#", or a run of characters that holds   *)
(* no line break, neither starts nor ends with white space and does not    *)
(* start with '#'.  Every string operation of the program (writeln!,       *)
(* format!, lines, is_empty, starts_with('#'), trim, trim_start_matches,   *)
(* pop) is computed on these sequences.  The alphabet holds no carriage    *)
(* return.                                                                 *)
(***************************************************************************)
EXTENDS Integers, Sequences, FiniteSets, TLC

\* The number of lines the editor may leave in a rewritten staging file.
MaxEditLines == 2

----------------------------------------------------------------------------
\* Names

\* cli_args.main_branch (the default of --main-branch).
MainName == <<"main">>

\* An ordinary branch name.
Feat == <<"feat">>

\* A branch name that begins with '#', such as "#12" (git allows it).
Hash12 == <<"#", "12">>

\* A name that is no local branch (the user may type one into the file).
Gone == <<"gone">>

\* What `git branch --format %(refname:short)` lists first on a detached HEAD.
DetachedEntry == <<"(HEAD", " ", "detached)">>

\* The refnames the repositories of the model draw their local branches
\* from, in the order git lists them (sorted by refname: '#' < 'f' < 'm').
NameOrder == <<Hash12, Feat, MainName>>

BranchNames == {NameOrder[i] : i \in 1..Len(NameOrder)}

\* The names that may have a remote-tracking ref besides the main branch.
RemoteNames == {Feat, Gone}

Commits == {"c1", "c2"}

\* The tree of <remote>/<main>, and another tree.
MainTree == "T0"

Trees == {"T0", "T1"}

\* The empty String / empty Vec<u8>.
Empty == <<>>

----------------------------------------------------------------------------
\* String operations

IsWhite(c) == c \in {" ", "\n", "\t"}

RECURSIVE TrimStart(_)
TrimStart(s) ==
    IF s # <<>> /\ IsWhite(Head(s)) THEN TrimStart(Tail(s)) ELSE s

RECURSIVE TrimEnd(_)
TrimEnd(s) ==
    IF s # <<>> /\ IsWhite(s[Len(s)])
    THEN TrimEnd(SubSeq(s, 1, Len(s) - 1))
    ELSE s

\* str::trim
Trim(s) == TrimEnd(TrimStart(s))

RECURSIVE LinesFrom(_, _)
LinesFrom(s, cur) ==
    IF s = <<>> THEN (IF cur = <<>> THEN <<>> ELSE <<cur>>)
    ELSE IF Head(s) = "\n" THEN <<cur>> \o LinesFrom(Tail(s), <<>>)
    ELSE LinesFrom(Tail(s), Append(cur, Head(s)))

\* str::lines: the pieces between line breaks; a final line break ends the
\* last line and starts no new one.
Lines(s) == LinesFrom(s, <<>>)

\* str::starts_with('#')
StartsWithHash(s) == s # <<>> /\ Head(s) = "#"

RECURSIVE TrimStartMatches(_, _)
\* str::trim_start_matches(p): every leading repetition of the pattern is
\* removed.
TrimStartMatches(s, p) ==
    IF p # <<>> /\ Len(s) >= Len(p) /\ SubSeq(s, 1, Len(p)) = p
    THEN TrimStartMatches(SubSeq(s, Len(p) + 1, Len(s)), p)
    ELSE s

\* Vec::pop: the last byte is dropped; nothing happens to an empty vector.
Pop(s) == IF s = <<>> THEN s ELSE SubSeq(s, 1, Len(s) - 1)

\* writeln!(buf, "{}", x)
Writeln(buf, x) == buf \o x \o <<"\n">>

RECURSIVE Concat(_)
\* The concatenation of a sequence of texts.
Concat(ss) == IF ss = <<>> THEN <<>> ELSE Head(ss) \o Concat(Tail(ss))

\* The static FOOTER.
FOOTER ==
    << "\n",
       "#", " ", "^^^^^^^^^^^^^^^^^^^^^^^", "\n",
       "#", " ", "! TO BE FORCE-DELETED !", "\n",
       "#", "\n",
       "#", " ", "Review and edit the above list of branches to be force-deleted.", "\n",
       "#", " ", "To preserve a branch, remove it from the list or comment it.", "\n",
       "#", " ", "To delete a commented branch, uncomment it." >>

----------------------------------------------------------------------------
\* State

VARIABLES
    \* cli_args
    always_open_editor, also_delete_remote_branches,
    \* the repository: refs/heads, HEAD, the tips of the local branches and
    \* of the remote-tracking refs refs/remotes/<remote>/*
    localBranches, head, localTip, remoteTip,
    \* the staging file in the temporary directory, the editor process and
    \* the `git push --delete` child processes
    stagingFile, editor, children,
    \* main's position, locals and result
    pc, exit, current_branch, branches, idx,
    branches_to_delete, branches_to_keep, final_user_selection,
    remote_delete_handles, printed,
    \* history: what each call of is_fully_merged saw and returned, what the
    \* editor wrote, the deletions issued, and what has happened so far
    classified, editedLines, attempted, pushed, events

cliVars == <<always_open_editor, also_delete_remote_branches>>

repoVars == <<localBranches, head, localTip, remoteTip>>

locals == <<current_branch, branches, idx, branches_to_delete,
            branches_to_keep, final_user_selection>>

childVars == <<remote_delete_handles, children>>

histVars == <<classified, editedLines, attempted, pushed, events>>

vars == <<cliVars, repoVars, stagingFile, editor, pc, exit, locals,
          childVars, printed, histVars>>

\* No staging file (none created yet, or the temporary directory dropped).
NoFile == <<"<no file>">>

\* editedLines before the editor has exited, and when it saved nothing.
NotEdited == [kind |-> "none"]

Unchanged == [kind |-> "unchanged"]

----------------------------------------------------------------------------
\* The git commands, as functions of the repository

\* Command::output of a process that ran: whether its exit status is
\* success, and its stdout.
Out(ok, stdout) == [launched |-> TRUE, ok |-> ok, stdout |-> stdout]

\* Command::output, spawn or status is an Err: the process did not start.
SpawnError == [launched |-> FALSE, ok |-> FALSE, stdout |-> Empty]

\* git rev-parse <remote>/<branch>
RevParseRemote(branch) ==
    IF branch \in DOMAIN remoteTip
    THEN Out(TRUE, <<remoteTip[branch], "\n">>)
    ELSE Out(FALSE, Empty)

\* git branch --show-current: the branch and a line break, or nothing on a
\* detached HEAD.
ShowCurrent == Out(TRUE, IF head = Empty THEN Empty ELSE head \o <<"\n">>)

\* The local branches in git's order.
SortedBranches == SelectSeq(NameOrder, LAMBDA b : b \in localBranches)

\* The stdout of git branch --format %(refname:short): one line per local
\* branch, after a "(HEAD detached at ...)" line when HEAD is detached.
BranchListing ==
    LET entries == (IF head = Empty THEN <<DetachedEntry>> ELSE <<>>)
                       \o SortedBranches
    IN  Concat([i \in 1..Len(entries) |-> entries[i] \o <<"\n">>])

\* What `git branch --format ...` may return: the listing, or a failure
\* status with nothing on stdout (an invalid branch.sort, a broken
\* repository).
GitBranchOutputs == {Out(TRUE, BranchListing), Out(FALSE, Empty)}

\* What `git merge-tree <remote>/<main> <branch>` may return: a clean merge
\* prints the merged tree's id; a conflict, or a name that is no
\* revision, is a failure status.
MergeTreeOutputs(branch) ==
    {Out(FALSE, Empty)} \cup
    (IF branch \in localBranches
     THEN {Out(TRUE, <<t, "\n">>) : t \in Trees}
     ELSE {})

\* git cat-file -p <remote>/<main>: the commit object.
CatFileMain ==
    Out(TRUE, <<"tree", " ", MainTree, "\n", "parent", " ", "c0", "\n",
                "\n", "squash", "\n">>)

\* A failed `git branch --delete --force`: its stderr, and whether the
\* bytes are UTF-8 (the message quotes a worktree's path as it is on disk).
Failure(text, utf8) ==
    [launched |-> TRUE, ok |-> FALSE, stderr |-> text, utf8 |-> utf8]

Success == [launched |-> TRUE, ok |-> TRUE, stderr |-> "", utf8 |-> TRUE]

\* What `git branch --delete --force <branch>` may return: a branch that
\* is checked out, here or in another worktree, is not deleted.
BranchDeleteOutputs(branch) ==
    IF branch \notin localBranches
    THEN {Failure("error: branch not found.", TRUE)}
    ELSE {Failure("error: Cannot delete branch checked out at", u) :
              u \in BOOLEAN}
         \cup (IF branch = head THEN {} ELSE {Success})

----------------------------------------------------------------------------
\* The program's pure parts

\* is_fully_merged without the comparison of the two trees: every clean
\* merge counts as merged.
is_fully_merged_NoTreeCompare(merge_tree_output, cat_file_output) ==
    IF ~merge_tree_output.launched THEN "Err"
    ELSE IF ~merge_tree_output.ok THEN "Ok(false)"
    ELSE IF ~cat_file_output.launched THEN "Err"
    ELSE "Ok(true)"

\* is_fully_merged on the results of its two commands: the Result<bool>.
is_fully_merged(merge_tree_output, cat_file_output) ==
    IF ~merge_tree_output.launched THEN "Err"
    ELSE IF ~merge_tree_output.ok THEN "Ok(false)"
    ELSE IF ~cat_file_output.launched THEN "Err"
    ELSE LET squashed_tree_hash == Trim(merge_tree_output.stdout)
             first == IF Lines(cat_file_output.stdout) = <<>> THEN Empty
                      ELSE Head(Lines(cat_file_output.stdout))
             main_tree_hash == TrimStartMatches(first, <<"tree", " ">>)
         IN  IF squashed_tree_hash = main_tree_hash
             THEN "Ok(true)" ELSE "Ok(false)"

\* should_delete_remote_branch on the results of its two commands.
should_delete_remote_branch(remote_rev, local_rev) ==
    IF ~remote_rev.launched THEN "Err"
    ELSE IF ~remote_rev.ok THEN "Ok(false)"
    ELSE IF ~local_rev.launched THEN "Err"
    ELSE IF remote_rev.stdout = local_rev.stdout
         THEN "Ok(true)" ELSE "Ok(false)"

\* The filter without its test for a comment.
IsApprovedLine_KeepsComments(line) == line # Empty

\* The filter of main's line 74.
IsApprovedLine(line) == line # Empty /\ ~StartsWithHash(line)

\* The names main iterates over in both deletion loops.
BranchesToDelete(text) ==
    LET kept == SelectSeq(Lines(text), IsApprovedLine)
    IN  [i \in 1..Len(kept) |-> Trim(kept[i])]

\* The condition without the -e flag.
NothingToDo_IgnoresFlag == branches_to_delete = Empty

\* The condition of main's line 54.
NothingToDo == branches_to_delete = Empty /\ ~always_open_editor

\* main's line 59.
StagingFileContent == branches_to_delete \o branches_to_keep \o FOOTER

\* Command::spawn in place of Command::status: main goes on at once.
EditorTerminated_NoWait == TRUE

\* Command::status returns only once the editor has terminated.
EditorTerminated == editor = "exited"

\* Child::try_wait in place of Child::wait: main goes on at once.
ChildTerminated_NoWait(handle) == TRUE

\* Child::wait returns only once the child has terminated.
ChildTerminated(handle) == children[handle] = "exited"

----------------------------------------------------------------------------
\* Init: the command line and the repository the run starts in

\* The remote-tracking refs.  Without --also-delete-remote-branches only
\* <remote>/<main> is ever read.
RemoteTips ==
    LET doms == {D \in SUBSET (RemoteNames \cup {MainName}) :
                     /\ MainName \notin D => D = {}
                     /\ ~also_delete_remote_branches => D \subseteq {MainName}}
    IN  UNION {{t \in [D -> Commits] :
                    \A b \in D : b # Feat => t[b] = "c1"} : D \in doms}

Init ==
    /\ always_open_editor \in BOOLEAN
    /\ also_delete_remote_branches \in BOOLEAN
    \* the main branch is a local branch too
    /\ localBranches \in {B \in SUBSET BranchNames : MainName \in B}
    /\ head \in localBranches \cup {Empty}
    /\ localTip = [b \in localBranches |-> "c1"]
    /\ remoteTip \in RemoteTips
    /\ stagingFile = NoFile
    /\ editor = "none"
    /\ children = <<>>
    /\ pc = "ensure_main"
    /\ exit = "running"
    /\ current_branch = Empty
    /\ branches = <<>>
    /\ idx = 1
    /\ branches_to_delete = Empty
    /\ branches_to_keep = Empty
    /\ final_user_selection = Empty
    /\ remote_delete_handles = <<>>
    /\ printed = <<>>
    /\ classified = <<>>
    /\ editedLines = NotEdited
    /\ attempted = <<>>
    /\ pushed = <<>>
    /\ events = {}

----------------------------------------------------------------------------
\* main

\* main returns: Ok(()) or an Err through `?`.  The temporary directory, if
\* any, is dropped.
Return(code) ==
    /\ pc' = "done"
    /\ exit' = code
    /\ stagingFile' = NoFile

\* Line 32, ensure_main_branch_exists.
EnsureMainBranchExists ==
    /\ pc = "ensure_main"
    /\ \E output \in {RevParseRemote(MainName), SpawnError} :
          IF ~output.launched
          THEN Return("err_io") /\ UNCHANGED events
          ELSE IF ~output.ok
          THEN Return("err_main_not_found")
                   /\ events' = events \cup {"main_unresolvable"}
          ELSE pc' = "get_current" /\ UNCHANGED <<exit, stagingFile, events>>
    /\ UNCHANGED <<cliVars, repoVars, editor, locals, childVars, printed,
                   classified, editedLines, attempted, pushed>>

\* get_current_branch: the last byte of stdout is dropped.
get_current_branch(git_output) == Pop(git_output.stdout)

\* Line 38: the exit status is not looked at.
GetCurrentBranch ==
    /\ pc = "get_current"
    /\ \E git_output \in {ShowCurrent, SpawnError} :
          IF ~git_output.launched
          THEN Return("err_io") /\ UNCHANGED current_branch
          ELSE /\ current_branch' = get_current_branch(git_output)
               /\ pc' = "get_branches"
               /\ UNCHANGED <<exit, stagingFile>>
    /\ UNCHANGED <<cliVars, repoVars, editor, branches, idx,
                   branches_to_delete, branches_to_keep,
                   final_user_selection, childVars, printed, histVars>>

\* get_local_branches: the lines of stdout.
get_local_branches(git_output) == Lines(git_output.stdout)

\* Line 40: the exit status is not looked at.
GetLocalBranches ==
    /\ pc = "get_branches"
    /\ \E git_output \in GitBranchOutputs \cup {SpawnError} :
          IF ~git_output.launched
          THEN Return("err_io") /\ UNCHANGED <<branches, idx, events>>
          ELSE /\ branches' = get_local_branches(git_output)
               /\ idx' = 1
               /\ events' = IF git_output.ok THEN events
                            ELSE events \cup {"enumeration_failed"}
               /\ pc' = "classify"
               /\ UNCHANGED <<exit, stagingFile>>
    /\ UNCHANGED <<cliVars, repoVars, editor, current_branch,
                   branches_to_delete, branches_to_keep,
                   final_user_selection, childVars, printed,
                   classified, editedLines, attempted, pushed>>

\* Lines 40-52, one iteration of the loop over the local branches.
ClassifyBranch ==
    /\ pc = "classify"
    /\ idx <= Len(branches)
    /\ LET branch == branches[idx] IN
          IF branch = MainName \/ branch = current_branch
          THEN /\ idx' = idx + 1
               /\ UNCHANGED <<pc, exit, stagingFile, branches_to_delete,
                              branches_to_keep, classified>>
          ELSE \E merge_tree_output \in
                      MergeTreeOutputs(branch) \cup {SpawnError} :
               \E cat_file_output \in
                      (IF merge_tree_output.ok
                       THEN {CatFileMain, SpawnError} ELSE {CatFileMain}) :
                  LET merged == is_fully_merged(merge_tree_output,
                                                cat_file_output)
                  IN  /\ classified' =
                            Append(classified,
                                   [branch |-> branch,
                                    merge |-> merge_tree_output,
                                    cat_file |-> cat_file_output,
                                    result |-> merged])
                      /\ IF merged = "Err"
                         THEN /\ Return("err_io")
                              /\ UNCHANGED <<idx, branches_to_delete,
                                             branches_to_keep>>
                         ELSE /\ IF merged = "Ok(true)"
                                 THEN /\ branches_to_delete' =
                                            Writeln(branches_to_delete, branch)
                                      /\ UNCHANGED branches_to_keep
                                 ELSE /\ branches_to_keep' =
                                            Writeln(branches_to_keep,
                                                    <<"#", " ">> \o branch)
                                      /\ UNCHANGED branches_to_delete
                              /\ idx' = idx + 1
                              /\ UNCHANGED <<pc, exit, stagingFile>>
    /\ UNCHANGED <<cliVars, repoVars, editor, current_branch, branches,
                   final_user_selection, childVars, printed,
                   editedLines, attempted, pushed, events>>

\* Lines 54-57: nothing to delete and no -e.
SkipEditor ==
    /\ pc = "classify"
    /\ idx > Len(branches)
    /\ NothingToDo
    /\ printed' = Append(printed, <<"Nothing to do. Use -e to force-open the editor.">>)
    /\ Return("ok")
    /\ UNCHANGED <<cliVars, repoVars, editor, locals, childVars, histVars>>

\* Lines 59-64: the temporary directory and the staging file.
WriteStagingFile ==
    /\ pc = "classify"
    /\ idx > Len(branches)
    /\ ~NothingToDo
    /\ \E io \in {"ok", "tempdir_fails", "write_fails"} :
          IF io = "ok"
          THEN /\ stagingFile' = StagingFileContent
               /\ pc' = "launch_editor"
               /\ events' = events \cup {"staging_created"}
               /\ UNCHANGED exit
          ELSE /\ Return("err_io")
               /\ events' = events \cup {"staging_file"}
    /\ UNCHANGED <<cliVars, repoVars, editor, locals, childVars, printed,
                   classified, editedLines, attempted, pushed>>

\* Lines 67-69: the editor is launched on the staging file.
LaunchEditor ==
    /\ pc = "launch_editor"
    /\ \E launched \in BOOLEAN :
          IF launched
          THEN /\ editor' = "running"
               /\ pc' = "wait_editor"
               /\ UNCHANGED <<exit, stagingFile, events>>
          ELSE /\ Return("err_io")
               /\ events' = events \cup {"editor_launch"}
               /\ UNCHANGED editor
    /\ UNCHANGED <<cliVars, repoVars, locals, childVars, printed,
                   classified, editedLines, attempted, pushed>>

----------------------------------------------------------------------------
\* The editor process

\* The lines a user may leave in the file: a name, a commented name, a name
\* uncommented by deleting only the '#', a name that is no branch, an empty
\* line.
EditLines ==
    { Feat, <<"#", " ">> \o Feat, <<" ">> \o Feat, Gone, Empty }

EditedFiles == UNION {[1..n -> EditLines] : n \in 0..MaxEditLines}

\* The file an editor writes for a sequence of lines.
SaveLines(ls) == Concat([i \in 1..Len(ls) |-> ls[i] \o <<"\n">>])

\* The user rewrites the file, saves and quits.
EditorRewrites ==
    /\ editor = "running"
    /\ \E ls \in EditedFiles :
          /\ stagingFile' = SaveLines(ls)
          /\ editedLines' = [kind |-> "rewritten", lines |-> ls]
    /\ editor' = "exited"
    /\ UNCHANGED <<cliVars, repoVars, pc, exit, locals, childVars, printed,
                   classified, attempted, pushed, events>>

\* The user quits without a change.
EditorQuits ==
    /\ editor = "running"
    /\ editor' = "exited"
    /\ editedLines' = Unchanged
    /\ UNCHANGED <<cliVars, repoVars, stagingFile, pc, exit, locals,
                   childVars, printed, classified, attempted, pushed,
                   events>>

----------------------------------------------------------------------------
\* main, after the editor

\* The names of both deletion loops (lines 72-75).
Approved == BranchesToDelete(final_user_selection)

\* Lines 67-71: Command::status returns, and the file is read back.
ReadStagingFile ==
    /\ pc = "wait_editor"
    /\ EditorTerminated
    /\ \E readable \in BOOLEAN :
          IF readable
          THEN /\ final_user_selection' = stagingFile
               /\ idx' = 1
               /\ pc' = IF also_delete_remote_branches THEN "remote_check"
                        ELSE "local_delete"
               /\ events' = events \cup {"reviewed"}
               /\ UNCHANGED <<exit, stagingFile>>
          ELSE Return("err_io")
                   /\ UNCHANGED <<final_user_selection, idx, events>>
    /\ UNCHANGED <<cliVars, repoVars, editor, current_branch, branches,
                   branches_to_delete, branches_to_keep, childVars, printed,
                   classified, editedLines, attempted, pushed>>

\* Lines 78-85: the check of one branch, and the spawn of its remote delete.
CheckRemoteBranch ==
    /\ pc = "remote_check"
    /\ idx <= Len(Approved)
    /\ LET branch == Approved[idx] IN
       \E remote_rev \in {RevParseRemote(branch), SpawnError},
          local_rev \in {RevParseRemote(branch), SpawnError},
          spawned \in BOOLEAN :
          LET should == should_delete_remote_branch(remote_rev, local_rev)
          IN  IF should = "Err" \/ (should = "Ok(true)" /\ ~spawned)
              THEN Return("err_io")
                      /\ UNCHANGED <<idx, childVars, pushed>>
              ELSE IF should = "Ok(true)"
              THEN /\ children' = Append(children, "running")
                   /\ remote_delete_handles' = <<Len(children) + 1>>
                   /\ pushed' = Append(pushed,
                          [branch |-> branch,
                           remote_rev |-> remoteTip[branch],
                           local_rev |-> IF branch \in localBranches
                                         THEN localTip[branch] ELSE "none"])
                   /\ pc' = "remote_wait"
                   /\ UNCHANGED <<idx, exit, stagingFile>>
              ELSE /\ idx' = idx + 1
                   /\ UNCHANGED <<pc, exit, stagingFile, childVars, pushed>>
    /\ UNCHANGED <<cliVars, repoVars, editor, current_branch, branches,
                   branches_to_delete, branches_to_keep,
                   final_user_selection, printed, classified, editedLines,
                   attempted, events>>

\* A child `git push --delete <remote> <branch>` runs to its end: the
\* remote deletes the branch, and with it the remote-tracking ref, or
\* refuses.
RemoteDeleteChild ==
    /\ \E i \in 1..Len(children) :
          /\ children[i] = "running"
          /\ children' = [children EXCEPT ![i] = "exited"]
          /\ \E accepted \in BOOLEAN :
                remoteTip' =
                    IF accepted
                    THEN [b \in DOMAIN remoteTip \ {pushed[i].branch}
                            |-> remoteTip[b]]
                    ELSE remoteTip
    /\ UNCHANGED <<cliVars, localBranches, head, localTip, stagingFile,
                   editor, pc, exit, locals, remote_delete_handles, printed,
                   histVars>>

\* Lines 86-88: every handle of the iteration is waited for.
AwaitRemoteDelete ==
    /\ pc = "remote_wait"
    /\ \A i \in 1..Len(remote_delete_handles) :
          ChildTerminated(remote_delete_handles[i])
    /\ remote_delete_handles' = <<>>
    /\ idx' = idx + 1
    /\ pc' = "remote_check"
    /\ UNCHANGED <<cliVars, repoVars, stagingFile, editor, children, exit,
                   current_branch, branches, branches_to_delete,
                   branches_to_keep, final_user_selection, printed,
                   histVars>>

\* Lines 89-92: the remote loop is over.
RemoteLoopEnds ==
    /\ pc = "remote_check"
    /\ idx > Len(Approved)
    /\ pc' = "local_delete"
    /\ idx' = 1
    /\ UNCHANGED <<cliVars, repoVars, stagingFile, editor, exit,
                   current_branch, branches, branches_to_delete,
                   branches_to_keep, final_user_selection, childVars,
                   printed, histVars>>

\* Lines 92-104: one iteration of the local loop.
DeleteLocalBranch ==
    /\ pc = "local_delete"
    /\ idx <= Len(Approved)
    /\ LET branch == Approved[idx] IN
       \E output \in BranchDeleteOutputs(branch) \cup {SpawnError} :
          IF ~output.launched
          THEN Return("err_io")
                  /\ UNCHANGED <<idx, printed, attempted, localBranches,
                                 localTip>>
          ELSE
              /\ attempted' = Append(attempted, branch)
              /\ localBranches' = IF output.ok
                                  THEN localBranches \ {branch}
                                  ELSE localBranches
              /\ localTip' = [b \in localBranches' |-> localTip[b]]
              /\ IF output.ok
                 THEN /\ printed' = Append(printed, <<"Deleted branch", branch>>)
                      /\ idx' = idx + 1
                      /\ UNCHANGED <<pc, exit, stagingFile>>
                 ELSE IF output.utf8
                 THEN /\ printed' = Append(printed,
                              <<"Failed to delete branch", branch,
                                output.stderr>>)
                      /\ idx' = idx + 1
                      /\ UNCHANGED <<pc, exit, stagingFile>>
                 ELSE Return("err_utf8") /\ UNCHANGED <<idx, printed>>
    /\ UNCHANGED <<cliVars, head, remoteTip, editor, current_branch,
                   branches, branches_to_delete, branches_to_keep,
                   final_user_selection, childVars, classified,
                   editedLines, pushed, events>>

\* Line 106: Ok(()).
LocalLoopEnds ==
    /\ pc = "local_delete"
    /\ idx > Len(Approved)
    /\ Return("ok")
    /\ UNCHANGED <<cliVars, repoVars, editor, locals, childVars, printed,
                   histVars>>

Next ==
    \/ EnsureMainBranchExists
    \/ GetCurrentBranch
    \/ GetLocalBranches
    \/ ClassifyBranch
    \/ SkipEditor
    \/ WriteStagingFile
    \/ LaunchEditor
    \/ EditorRewrites
    \/ EditorQuits
    \/ ReadStagingFile
    \/ CheckRemoteBranch
    \/ RemoteDeleteChild
    \/ AwaitRemoteDelete
    \/ RemoteLoopEnds
    \/ DeleteLocalBranch
    \/ LocalLoopEnds

Spec == Init /\ [][Next]_vars

----------------------------------------------------------------------------
\* Properties

\* A step that deletes or moves a ref, or issues a deletion.
Destructive ==
    \/ localBranches' # localBranches
    \/ localTip' # localTip
    \/ remoteTip' # remoteTip
    \/ attempted' # attempted
    \/ pushed' # pushed

\* C1: no local force-delete and no remote delete is issued, and no ref
\* changes, before the editor has terminated and the staging file has been
\* read back; enumeration and classification change no ref.
C1_ReviewBeforeDeletion ==
    [][Destructive => (editor = "exited" /\ "reviewed" \in events)]_vars

\* A branch has been deleted locally and a remote delete has been issued.
C1_Witness ==
    /\ "reviewed" \in events
    /\ pushed # <<>>
    /\ Feat \notin localBranches
    /\ \E i \in 1..Len(printed) : printed[i] = <<"Deleted branch", Feat>>

UncommentedLines(ls) == SelectSeq(ls, LAMBDA l : l # <<>> /\ l[1] # "#")

\* C3: the names submitted for deletion are the lines of the saved file
\* that are not empty and do not begin with '#', whatever the
\* classification was and whether or not the name was a candidate; every
\* deletion issued is of such a name.
C3_SelectionFromDocument ==
    /\ ("reviewed" \in events /\ editedLines.kind = "rewritten") =>
           LET kept == UncommentedLines(editedLines.lines)
           IN  /\ Len(Approved) = Len(kept)
               /\ \A i \in 1..Len(kept) : Approved[i] = Trim(kept[i])
    /\ Len(attempted) <= Len(Approved)
    /\ \A i \in 1..Len(attempted) : attempted[i] = Approved[i]
    /\ \A i \in 1..Len(pushed) :
          \E j \in 1..Len(Approved) : pushed[i].branch = Approved[j]

\* A branch classified NotMerged was uncommented and is deleted, and a name
\* that was no candidate is submitted too.
C3_Witness ==
    /\ editedLines.kind = "rewritten"
    /\ attempted = <<Feat, Gone>>
    /\ Feat \notin localBranches
    /\ \E i \in 1..Len(classified) :
          classified[i].branch = Feat /\ classified[i].result = "Ok(false)"

\* The branches that are candidates: all but main and the current one.
Candidates == localBranches \ {MainName, head}

FullyMergedNames ==
    {classified[i].branch :
        i \in {j \in 1..Len(classified) : classified[j].result = "Ok(true)"}}

\* C4: a staging document that is built (after an enumeration that
\* succeeded) holds exactly one line for every local branch other than main
\* and the current branch and no other branch line, the bare name if the
\* branch is FullyMerged and "# name" if not, and the footer follows.
C4_DocumentLines ==
    (pc = "launch_editor" /\ "enumeration_failed" \notin events) =>
        \E n \in 0..Len(stagingFile) :
            LET lines == Lines(SubSeq(stagingFile, 1, n))
            IN  /\ stagingFile = SubSeq(stagingFile, 1, n) \o FOOTER
                /\ \A b \in Candidates :
                      Cardinality({i \in 1..Len(lines) :
                          lines[i] \in {b, <<"#", " ">> \o b}}) = 1
                /\ \A i \in 1..Len(lines) :
                      \E b \in Candidates :
                          \/ lines[i] = b /\ b \in FullyMergedNames
                          \/ /\ lines[i] = <<"#", " ">> \o b
                             /\ b \notin FullyMergedNames

\* C5: when the editor leaves the file as generated, the names parsed from
\* it are exactly the branches classified FullyMerged.
C5_Idempotence ==
    ("reviewed" \in events /\ editedLines.kind = "unchanged") =>
        {Approved[i] : i \in 1..Len(Approved)} = FullyMergedNames

\* C6: once the file has been read back, a run whose branch enumeration
\* succeeded and in which git can be launched ends with success after a
\* force-delete of every approved name, each outcome printed.
C6_EveryApprovedAttempted ==
    (/\ pc = "done"
     /\ "reviewed" \in events
     /\ "enumeration_failed" \notin events
     /\ exit # "err_io") =>
        /\ exit = "ok"
        /\ attempted = Approved
        /\ Len(printed) = Len(Approved)
        /\ \A i \in 1..Len(Approved) : printed[i][2] = Approved[i]

\* C7: a remote delete is issued only with the flag set, for a branch whose
\* remote-tracking ref exists and whose local tip is that ref's commit.
C7_RemoteDeleteOnlyIfSynced ==
    \A i \in 1..Len(pushed) :
        /\ also_delete_remote_branches
        /\ pushed[i].local_rev = pushed[i].remote_rev

\* The branches were all classified and none is FullyMerged.
NoneFullyMerged == FullyMergedNames = {}

\* The step after the loop over the branches, and the step after the
\* staging file is written.
C8_Step ==
    /\ (pc = "classify" /\ idx > Len(branches)) =>
          IF NoneFullyMerged /\ ~always_open_editor
          THEN /\ pc' = "done"
               /\ exit' = "ok"
               /\ stagingFile' = NoFile
               /\ editor' = "none"
               /\ printed' =
                     << <<"Nothing to do. Use -e to force-open the editor.">> >>
               /\ UNCHANGED <<repoVars, attempted, pushed, events>>
          ELSE \/ /\ pc' = "launch_editor"
                  /\ stagingFile' # NoFile
                  /\ "staging_created" \in events'
               \/ /\ pc' = "done"
                  /\ exit' = "err_io"
                  /\ "staging_file" \in events'
    /\ pc = "launch_editor" =>
          \/ editor' = "running"
          \/ pc' = "done" /\ exit' = "err_io" /\ "editor_launch" \in events'

\* C8: with no FullyMerged branch and without -e the run creates no staging
\* document, starts no editor, deletes nothing, prints the notice and ends
\* with success; otherwise the document is created and the editor started
\* (or the run ends with the error of doing so).
C8_SkipRule ==
    /\ [][C8_Step]_vars
    /\ []("staging_created" \notin events =>
              (editor = "none" /\ attempted = <<>> /\ pushed = <<>>
               /\ stagingFile = NoFile))

\* A run with a branch that is not merged has ended with the notice.
C8_Witness ==
    /\ pc = "done"
    /\ exit = "ok"
    /\ ~always_open_editor
    /\ classified # <<>>
    /\ printed # <<>>
    /\ "staging_created" \notin events

\* The events that the specification calls fatal.
FatalConditions ==
    {"main_unresolvable", "enumeration_failed", "staging_file",
     "editor_launch"}

\* C9: each fatal condition ends the run at once with an error and without
\* a deletion.
C9_FatalAborts ==
    (events \cap FatalConditions # {}) =>
        /\ pc = "done"
        /\ exit \notin {"ok", "running"}
        /\ attempted = <<>>
        /\ pushed = <<>>

\* C10: a remote delete child runs only while main waits for it: none is
\* running when the next remote check starts, when the local deletions
\* start, or when main has returned.
C10_RemoteDeletesAwaited ==
    \A i \in 1..Len(children) :
        children[i] = "running" =>
            (pc = "remote_wait" /\ remote_delete_handles = <<i>>)

\* A run that issued two remote deletes has ended.
C10_Witness ==
    /\ pc = "done"
    /\ Len(children) = 2

====
